---- MODULE Spec2Model ----
(***************************************************************************)
(* A model of the PropertyGrid canvas component: the viewport, the mouse   *)
(* and touch gesture handlers, the hit test and the zoom commands.         *)
(* Numbers of the component are JavaScript doubles; the model computes     *)
(* with exact rationals <<n, d>> (d > 0, lowest terms), and the inputs are *)
(* drawn so that every square root taken is exact.                         *)
(***************************************************************************)
EXTENDS Integers, Sequences, FiniteSets, TLC

\* ------------------------------------------------------------------------
\* Bounds of the model
\* ------------------------------------------------------------------------
\* number of input events of one behaviour
MaxSteps == 4
\* number of fingers that can touch the canvas at once
MaxTouches == 3

\* ------------------------------------------------------------------------
\* Exact rational arithmetic
\* ------------------------------------------------------------------------
Abs(i) == IF i < 0 THEN -i ELSE i

RECURSIVE Gcd(_, _)
Gcd(a, b) == IF b = 0 THEN a ELSE Gcd(b, a % b)

Norm(n, d) ==
  LET s == IF d < 0 THEN -1 ELSE 1
      g == Gcd(Abs(n), Abs(d))
  IN  <<(s * n) \div g, (s * d) \div g>>

R(i) == <<i, 1>>
\* sum, difference and product as fractions that need not be in lowest terms
\* (enough for a comparison)
QAdd(a, b) == <<a[1] * b[2] + b[1] * a[2], a[2] * b[2]>>
QSub(a, b) == <<a[1] * b[2] - b[1] * a[2], a[2] * b[2]>>
QMul(a, b) == <<a[1] * b[1], a[2] * b[2]>>
QEq(a, b) == a[1] * b[2] = b[1] * a[2]
\* the same in lowest terms (for a value that is kept)
RAdd(a, b) == Norm(a[1] * b[2] + b[1] * a[2], a[2] * b[2])
RSub(a, b) == Norm(a[1] * b[2] - b[1] * a[2], a[2] * b[2])
RMul(a, b) == Norm(a[1] * b[1], a[2] * b[2])
RDiv(a, b) == Norm(a[1] * b[2], a[2] * b[1])
RLe(a, b) == a[1] * b[2] <= b[1] * a[2]
RLt(a, b) == a[1] * b[2] < b[1] * a[2]
RMin(a, b) == IF RLe(a, b) THEN a ELSE b
RMax(a, b) == IF RLe(a, b) THEN b ELSE a

\* ------------------------------------------------------------------------
\* The environment of the component: the canvas box, the markers, the
\* pointer positions the input events carry
\* ------------------------------------------------------------------------
\* canvas.getBoundingClientRect(): the canvas fills the window
RectLeft == 0
RectTop == 0
RectWidth == 800
RectHeight == 600

NoId == "none"

\* leads and properties props: id, gridPosition {x, y, size}, marketValue and
\* propertyType
Leads ==
  << [id |-> "A", x |-> 100, y |-> 100, size |-> 50,
      marketValue |-> 450000, propertyType |-> "residential"],
     [id |-> "B", x |-> 120, y |-> 100, size |-> 50,
      marketValue |-> 1200000, propertyType |-> "land"],
     [id |-> "L", x |-> 420, y |-> 420, size |-> 40,
      marketValue |-> 500, propertyType |-> "commercial"] >>

Properties ==
  << [id |-> "P", x |-> 260, y |-> 100, size |-> 20,
      marketValue |-> 1500000, propertyType |-> "commercial"] >>

\* the properties prop after the owner has loaded another result list
Reloaded ==
  << [id |-> "Q", x |-> 400, y |-> 400, size |-> 60,
      marketValue |-> 0, propertyType |-> "land"] >> \o Properties

\* the layout sizes of the canvas and the device pixel ratios that go with them
Layouts ==
  { [width |-> RectWidth, height |-> RectHeight, devicePixelRatio |-> R(1)],
    [width |-> 401, height |-> 401, devicePixelRatio |-> <<3, 2>>] }

\* clientX / clientY of the pointer events
Points == { <<100, 100>>, <<140, 100>>, <<260, 100>>, <<400, 400>> }

NoPoint == <<-1, -1>>

\* mouse buttons: 0 is the primary button, 2 the secondary
Buttons == {0, 2}

SqDist(p, q) == (q[1] - p[1]) * (q[1] - p[1]) + (q[2] - p[2]) * (q[2] - p[2])

\* the integer part of the square root of n, by Newton's iteration from x
RECURSIVE Newton(_, _)
Newton(n, x) ==
  LET y == (x + n \div x) \div 2
  IN  IF y >= x THEN x ELSE Newton(n, y)

\* the exact values of Math.sqrt(SqDist(p, q)): at most one, none when the
\* root is irrational
Roots(p, q) ==
  LET n == SqDist(p, q)
      r == IF n = 0 THEN 0 ELSE Newton(n, n)
  IN  IF r * r = n THEN {r} ELSE {}

\* the pairs of finger positions of a two-finger event
TouchPairs == { pq \in Points \X Points : Roots(pq[1], pq[2]) # {} }

getTouchDistance(touch1, touch2) == R(CHOOSE r \in Roots(touch1, touch2) : TRUE)

\* ------------------------------------------------------------------------
\* State
\* ------------------------------------------------------------------------
VARIABLES
  viewport,            \* useState<GridViewport>: offsetX, offsetY, scale
  isDragging,          \* useState(false): the canvas is being panned
  dragStart,           \* useState({x, y}): pointer position minus offset at pan start
  hoveredProperty,     \* useState<string | null>
  lastTouchDistance,   \* useState(0): finger distance of the previous pinch frame
  isMobile,            \* useState(false), set once by checkMobile on mount
  isDraggingProperty,  \* useState<string | null>: id of the marker being dragged
  propertyDragOffset,  \* useState({x, y}): grab point minus the marker's screen position
  showOnlyLeads,       \* prop
  hasCallback,         \* prop: onLeadPositionUpdate is registered
  unplaced,            \* props: the lists hold a marker that has no gridPosition
  selectedPropertyId,  \* prop, set by the owner on onPropertySelect
  held,                \* mouse buttons pressed on the canvas
  clickPending,        \* the browser dispatches a click event next
  pointerAt,           \* where the mouse, or the first finger, is (NoPoint: nowhere)
  nTouches,            \* fingers on the canvas
  selectEvents,        \* onPropertySelect calls made by the last handler
  positionUpdates,     \* onLeadPositionUpdate calls made by the last handler
  lastEvent,           \* the input event handled last
  seqStart,            \* where the first pointer of the running sequence went down
  seqPure,             \* the sequence is so far one unmodified pointer, pressed, not moved
  seqGestured,         \* the sequence has moved, panned, dragged a marker or zoomed
  panStart,            \* pointer position p and viewport offset o when the pan was started
  grabStart,           \* pointer position p and viewport vp when the marker was grabbed
  modifier,            \* e.shiftKey of the last event, when it was a pointer-down
  raised,              \* the last handler threw a TypeError
  frameBaseline,       \* lastTouchDistance as the last event found it, when it was a touch move
  pinchRun,            \* scale and baseline before the first of the latest pinch frames without clamp
  steps,               \* input events handled so far
  rect,                \* canvas.getBoundingClientRect(): width and height of the layout box
  devicePixelRatio,    \* window.devicePixelRatio
  canvasState,         \* "2d", "nocontext" (getContext returns null) or "none" (no element)
  reloaded,            \* props: the owner has replaced the properties list
  backing,             \* canvas.width and canvas.height
  ctx,                 \* the state of the 2D context: scale and styles
  passes,              \* the draw calls of each render pass of the last run of the effects
  effectError          \* a render pass or a resize threw

vars == << viewport, isDragging, dragStart, hoveredProperty, lastTouchDistance,
           isMobile, isDraggingProperty, propertyDragOffset, showOnlyLeads,
           hasCallback, selectedPropertyId, held, clickPending, pointerAt,
           nTouches, selectEvents, positionUpdates, lastEvent, seqStart, seqPure,
           seqGestured, panStart, grabStart, modifier, raised, frameBaseline,
           pinchRun, steps, rect, devicePixelRatio, canvasState, reloaded, backing, ctx,
           passes, effectError >>

\* the component's own state
compVars == << viewport, isDragging, dragStart, hoveredProperty, lastTouchDistance,
               isDraggingProperty, propertyDragOffset >>

\* the props and the device, fixed for the life of the mount
propVars == << isMobile, showOnlyLeads, hasCallback, unplaced >>

\* the canvas element, its layout and the marker list the owner passes
canvasVars == << rect, devicePixelRatio, canvasState, reloaded >>

\* ------------------------------------------------------------------------
\* Hit test
\* ------------------------------------------------------------------------
\* the leads and properties props: the markers above, and when the lists
\* hold markers without a gridPosition, one after the first lead and one
\* before the first property
leads == IF unplaced THEN << Leads[1], [id |-> "N"] >> \o Tail(Leads) ELSE Leads

properties ==
  IF unplaced THEN << [id |-> "M"] >> \o Properties
  ELSE IF reloaded THEN Reloaded
  ELSE Properties

\* property.gridPosition is set
HasPosition(property) == "x" \in DOMAIN property

\* the list the handlers search
propertiesToCheck == IF showOnlyLeads THEN leads ELSE properties

\* the list drawGrid draws, in draw order
propertiesToShow == IF showOnlyLeads THEN leads ELSE leads \o properties

\* x and y of a marker on the screen
toScreenX(property, vp) == RAdd(RMul(R(property.x), vp.scale), vp.offsetX)
toScreenY(property, vp) == RAdd(RMul(R(property.y), vp.scale), vp.offsetY)

\* the predicate with the right and bottom edges left out
ContainsHalfOpen(property, mouseX, mouseY, vp) ==
  LET x == toScreenX(property, vp)
      y == toScreenY(property, vp)
      size == RMul(R(property.size), vp.scale)
      half == RMul(size, <<1, 2>>)
  IN  /\ RLe(RSub(x, half), mouseX) /\ RLt(mouseX, RAdd(x, half))
      /\ RLe(RSub(y, half), mouseY) /\ RLt(mouseY, RAdd(y, half))

\* the predicate of the find calls: the point lies in the square of side
\* size * scale centred on the marker's screen position
Contains(property, mouseX, mouseY, vp) ==
  LET x == toScreenX(property, vp)
      y == toScreenY(property, vp)
      size == RMul(R(property.size), vp.scale)
      half == RMul(size, <<1, 2>>)
  IN  /\ RLe(RSub(x, half), mouseX) /\ RLe(mouseX, RAdd(x, half))
      /\ RLe(RSub(y, half), mouseY) /\ RLe(mouseY, RAdd(y, half))

\* the least element of a non-empty set of indices
First(indices) == CHOOSE i \in indices : \A j \in indices : i <= j

\* Array.prototype.find: the index of the first element that matches, 0 if
\* none; -1 if the predicate is reached for an element without gridPosition,
\* where reading gridPosition.x throws
Find(list, mouseX, mouseY, vp) ==
  LET hits == { i \in 1..Len(list) :
                  HasPosition(list[i]) /\ Contains(list[i], mouseX, mouseY, vp) }
      throws == { i \in 1..Len(list) : ~HasPosition(list[i]) }
  IN  IF throws # {} /\ (hits = {} \/ First(throws) < First(hits)) THEN -1
      ELSE IF hits = {} THEN 0
      ELSE First(hits)

\* the outcome of a hit test that throws
TypeError == "TypeError"

\* the id of the marker the handlers resolve at a client position, NoId if
\* there is none, TypeError if the search throws
HitTest(p, vp) ==
  LET i == Find(propertiesToCheck, R(p[1] - RectLeft), R(p[2] - RectTop), vp)
  IN  IF i = -1 THEN TypeError
      ELSE IF i = 0 THEN NoId
      ELSE propertiesToCheck[i].id

\* ------------------------------------------------------------------------
\* Rendering
\* ------------------------------------------------------------------------
\* a cull of every marker whose centre is off the canvas
CulledByCentre(x, y, size, width, height) ==
  \/ RLt(x, R(0))
  \/ RLt(R(width), x)
  \/ RLt(y, R(0))
  \/ RLt(R(height), y)

\* the marker is culled: its projection is further than its size off the
\* canvas (x < -size is compared as x + size < 0, x > width + size as
\* width < x - size)
Culled(x, y, size, width, height) ==
  \/ RLt(RAdd(x, size), R(0))
  \/ RLt(R(width), RSub(x, size))
  \/ RLt(RAdd(y, size), R(0))
  \/ RLt(R(height), RSub(y, size))

\* drawGrid draws the marker: it has a gridPosition and its projection is not
\* further than its size off the canvas
Visible(property, vp) ==
  /\ HasPosition(property)
  /\ LET x == toScreenX(property, vp)
         y == toScreenY(property, vp)
         size == RMul(R(IF property.size = 0 THEN 50 ELSE property.size), vp.scale)
     IN  ~Culled(x, y, size, rect.width, rect.height)

Drawn(property) == Visible(property, viewport)

\* the markers drawGrid draws for the current state, in draw order
drawGrid == SelectSeq(propertiesToShow, Drawn)

\* ------------------------------------------------------------------------
\* The draw calls of a render pass
\* ------------------------------------------------------------------------
\* Math.round of a rational: the nearest integer, halves upwards
Round(q) == (2 * q[1] + q[2]) \div (2 * q[2])

\* the integer part of a rational
Trunc(q) == IF q[1] >= 0 THEN q[1] \div q[2] ELSE -((-q[1]) \div q[2])

\* a % b of JavaScript: the remainder has the sign of a
Rem(a, b) == RSub(a, RMul(b, R(Trunc(RDiv(a, b)))))

\* the state of a 2D context that has just been created or reset
DefaultContext ==
  [scale |-> R(1), fillStyle |-> "#000000", strokeStyle |-> "#000000", lineWidth |-> 1]

\* no text is drawn on the marker
NoLabel == [amount |-> -1, unit |-> "", font |-> R(0), fillStyle |-> ""]

\* the text drawn on a marker: `$${amount}${unit}`
displayValue(value) ==
  IF value >= 1000000
  THEN [amount |-> Round(<<value, 1000000>>), unit |-> "M"]
  ELSE IF value >= 1000
  THEN [amount |-> Round(<<value, 1000>>), unit |-> "K"]
  ELSE [amount |-> Round(<<value, 1000>>), unit |-> "K"]

\* the label of a marker drawn with the given size on the screen
drawLabel(property, size) ==
  IF RLt(R(30), size)
  THEN LET text == displayValue(property.marketValue)
       IN  [amount |-> text.amount, unit |-> text.unit,
            font |-> RMax(R(10), RMul(size, <<1, 5>>)), fillStyle |-> "#ffffff"]
  ELSE NoLabel

\* the styles with the hovered marker resolved before the selected one
setColorsHoverFirst(c, isSelected, isHovered, isLead) ==
  IF isHovered
  THEN [c EXCEPT !.fillStyle = IF isLead THEN "#10b981" ELSE "#3b82f6",
                 !.strokeStyle = "#ffffff", !.lineWidth = 2]
  ELSE IF isSelected
  THEN [c EXCEPT !.fillStyle = "#00d9ff", !.strokeStyle = "#ffffff", !.lineWidth = 3]
  ELSE [c EXCEPT !.fillStyle = IF isLead THEN "#059669" ELSE "#1d4ed8",
                 !.strokeStyle = "rgba(255, 255, 255, 0.3)", !.lineWidth = 1]

\* the fill, stroke and line width of a marker: selected, else hovered, else
\* normal
setColors(c, isSelected, isHovered, isLead) ==
  IF isSelected
  THEN [c EXCEPT !.fillStyle = "#00d9ff", !.strokeStyle = "#ffffff", !.lineWidth = 3]
  ELSE IF isHovered
  THEN [c EXCEPT !.fillStyle = IF isLead THEN "#10b981" ELSE "#3b82f6",
                 !.strokeStyle = "#ffffff", !.lineWidth = 2]
  ELSE [c EXCEPT !.fillStyle = IF isLead THEN "#059669" ELSE "#1d4ed8",
                 !.strokeStyle = "rgba(255, 255, 255, 0.3)", !.lineWidth = 1]

\* the path of a marker: a hexagon of radius size / 2 for a lead, a square of
\* side size for any other marker
drawShape(property, isLead, size) ==
  IF isLead
  THEN [kind |-> "hexagon", width |-> size, height |-> size]
  ELSE [kind |-> "square", width |-> size, height |-> size]

\* property is one of the leads
IsLead(property, leadList) == \E i \in 1..Len(leadList) : leadList[i].id = property.id

\* the forEach callback returned before drawing
Skipped == [op |-> "skip"]

\* the body of the forEach callback on a context in state c: nothing for a
\* marker that has no gridPosition or is culled, else the fill and stroke of
\* its shape and its label, with the context state in force
drawProperty(c, property, r, vp, leadList, hovered, selected) ==
  IF ~HasPosition(property) THEN Skipped
  ELSE
  LET x == toScreenX(property, vp)
      y == toScreenY(property, vp)
      size == RMul(R(IF property.size = 0 THEN 50 ELSE property.size), vp.scale)
      isLead == IsLead(property, leadList)
      styled == setColors(c, selected = property.id, hovered = property.id, isLead)
  IN  IF Culled(x, y, size, r.width, r.height) THEN Skipped
      ELSE [op |-> "marker", id |-> property.id, x |-> x, y |-> y,
            shape |-> drawShape(property, isLead, size),
            fillStyle |-> styled.fillStyle, strokeStyle |-> styled.strokeStyle,
            lineWidth |-> styled.lineWidth, label |-> drawLabel(property, size),
            scale |-> styled.scale]

\* the draw calls of the body of drawGrid, in order, on a context in state c
\* with the values of its closure
drawGridCalls(c, r, vp, propList, leadList, only, hovered, selected) ==
  LET cleared == [c EXCEPT !.fillStyle = "#0f0f1e"]
      lined == [cleared EXCEPT !.strokeStyle = "rgba(42, 42, 62, 0.5)", !.lineWidth = 1]
      gridSize == RMul(R(50), vp.scale)
      toShow == IF only THEN leadList ELSE leadList \o propList
      each == [i \in 1..Len(toShow) |->
                 drawProperty(lined, toShow[i], r, vp, leadList, hovered, selected)]
  IN  << [op |-> "fillRect", width |-> r.width, height |-> r.height,
          fillStyle |-> cleared.fillStyle, scale |-> cleared.scale],
         [op |-> "lines", x |-> Rem(vp.offsetX, gridSize),
          y |-> Rem(vp.offsetY, gridSize), step |-> gridSize,
          strokeStyle |-> lined.strokeStyle, lineWidth |-> lined.lineWidth,
          scale |-> lined.scale] >>
      \o SelectSeq(each, LAMBDA call : call.op # "skip")

\* a body of drawGrid that scales the context for the display
drawGridLeavesScaled(c) ==
  [c EXCEPT !.scale = RMul(c.scale, R(2)), !.fillStyle = "#0f0f1e",
            !.strokeStyle = "rgba(42, 42, 62, 0.5)", !.lineWidth = 1]

\* the state the body of drawGrid leaves the context in: the styles of the
\* background and of the grid lines, every marker being drawn between save
\* and restore
drawGridLeaves(c) ==
  [c EXCEPT !.fillStyle = "#0f0f1e", !.strokeStyle = "rgba(42, 42, 62, 0.5)",
            !.lineWidth = 1]

\* the draw calls of a render pass, from the context state and the closure
\* values it ran with
Frame(pass) ==
  drawGridCalls(pass.ctx, pass.rect, pass.viewport, pass.properties, pass.leads,
                pass.showOnlyLeads, pass.hoveredProperty, pass.selectedPropertyId)

\* the marker of the list with a given id
PropertyOf(id) == CHOOSE m \in { propertiesToCheck[i] : i \in 1..Len(propertiesToCheck) } : m.id = id

\* ------------------------------------------------------------------------
\* Render passes, resize and the effects
\* ------------------------------------------------------------------------
\* a render pass that goes on without a canvas or a context
drawGridPassUnguarded(c, r, vp, propList, leadList, only, hovered, selected) ==
  IF canvasState = "2d"
  THEN [frames |-> << [ctx |-> c, rect |-> r, viewport |-> vp, properties |-> propList,
                       leads |-> leadList, showOnlyLeads |-> only,
                       hoveredProperty |-> hovered, selectedPropertyId |-> selected] >>,
        ctx |-> drawGridLeaves(c), raised |-> FALSE]
  ELSE [frames |-> << >>, ctx |-> c, raised |-> TRUE]

\* a call of drawGrid on a context in state c: the passes that drew (one, or
\* none when there is no canvas or no context) with what they ran on, the
\* state of the context after it and whether it threw
drawGridPass(c, r, vp, propList, leadList, only, hovered, selected) ==
  IF canvasState = "2d"
  THEN [frames |-> << [ctx |-> c, rect |-> r, viewport |-> vp, properties |-> propList,
                       leads |-> leadList, showOnlyLeads |-> only,
                       hoveredProperty |-> hovered, selectedPropertyId |-> selected] >>,
        ctx |-> drawGridLeaves(c), raised |-> FALSE]
  ELSE [frames |-> << >>, ctx |-> c, raised |-> FALSE]

\* the size of the backing store: the width and height setters of the canvas
\* take an unsigned long
BackingSize(r, dpr) ==
  [width |-> Trunc(RMul(R(r.width), dpr)), height |-> Trunc(RMul(R(r.height), dpr))]

\* a resize that scales the context without resetting it
resizeCanvasKeepsTransform(b, c, r, dpr, vp, propList, leadList, only, hovered, selected) ==
  IF canvasState = "none"
  THEN [backing |-> b, ctx |-> c, frames |-> << >>, raised |-> FALSE]
  ELSE LET scaled == IF canvasState = "2d"
                     THEN [c EXCEPT !.scale = RMul(c.scale, dpr)]
                     ELSE c
           pass == drawGridPass(scaled, r, vp, propList, leadList, only, hovered, selected)
       IN  [backing |-> BackingSize(r, dpr), ctx |-> pass.ctx,
            frames |-> pass.frames, raised |-> pass.raised]

\* resizeCanvas on a canvas with backing store b and context state c: setting
\* the width and height resets the context and clears the canvas, then the
\* context is scaled and drawGrid is called
resizeCanvas(b, c, r, dpr, vp, propList, leadList, only, hovered, selected) ==
  IF canvasState = "none"
  THEN [backing |-> b, ctx |-> c, frames |-> << >>, raised |-> FALSE]
  ELSE LET scaled == IF canvasState = "2d"
                     THEN [DefaultContext EXCEPT !.scale = RMul(DefaultContext.scale, dpr)]
                     ELSE DefaultContext
           pass == drawGridPass(scaled, r, vp, propList, leadList, only, hovered, selected)
       IN  [backing |-> BackingSize(r, dpr), ctx |-> pass.ctx,
            frames |-> pass.frames, raised |-> pass.raised]

\* the two effects, run in order after a commit: the first calls resizeCanvas,
\* the second drawGrid
RunEffects ==
  LET first == resizeCanvas(backing, ctx, rect', devicePixelRatio', viewport',
                            properties', leads', showOnlyLeads', hoveredProperty',
                            selectedPropertyId')
      second == drawGridPass(first.ctx, rect', viewport', properties', leads',
                             showOnlyLeads', hoveredProperty', selectedPropertyId')
  IN  /\ backing' = first.backing
      /\ ctx' = second.ctx
      /\ passes' = first.frames \o second.frames
      /\ effectError' = (first.raised \/ second.raised)

\* a dependency array of drawGrid without the viewport
DrawGridChangedNoViewport ==
  \/ hoveredProperty' # hoveredProperty
  \/ selectedPropertyId' # selectedPropertyId
  \/ properties' # properties
  \/ leads' # leads
  \/ showOnlyLeads' # showOnlyLeads

\* a dependency of drawGrid has changed with the step
DrawGridChanged ==
  \/ viewport' # viewport
  \/ hoveredProperty' # hoveredProperty
  \/ selectedPropertyId' # selectedPropertyId
  \/ properties' # properties
  \/ leads' # leads
  \/ showOnlyLeads' # showOnlyLeads

\* the effects after the commit of a handler's updates: both depend on
\* drawGrid and run when it has changed
Effects ==
  /\ UNCHANGED canvasVars
  /\ IF DrawGridChanged THEN RunEffects
     ELSE UNCHANGED << backing, ctx, passes, effectError >>

\* the updates of a handler are committed and the effects of the commit are
\* run before the next event is handled (the root and its scheduler are
\* React's; the entry point that makes the root is not among the sources)
Flush == Effects

\* ------------------------------------------------------------------------
\* Runs of pinch frames
\* ------------------------------------------------------------------------
\* the event is a two-finger move frame that finds a positive baseline and
\* whose scale is not cut by the clamp
UnclampedFrame ==
  /\ lastEvent' = "touchmove"
  /\ nTouches = 2
  /\ RLt(R(0), lastTouchDistance)
  /\ LET scaled == RMul(viewport.scale, RDiv(lastTouchDistance', lastTouchDistance))
     IN  RLe(<<3, 10>>, scaled) /\ RLe(scaled, R(3))

\* a run of frames goes on with an unclamped frame and starts anew, from the
\* scale and baseline it leaves, with any other event
TrackRun ==
  pinchRun' = IF UnclampedFrame THEN pinchRun
              ELSE [scale |-> viewport'.scale, distance |-> lastTouchDistance']

\* ------------------------------------------------------------------------
\* Initial state: the mounted component
\* ------------------------------------------------------------------------
InitialViewport == [offsetX |-> R(0), offsetY |-> R(0), scale |-> R(1)]

\* the state of the hooks and of the owner when the component has mounted
Mounted ==
  /\ viewport = InitialViewport
  /\ isDragging = FALSE
  /\ dragStart = [x |-> R(0), y |-> R(0)]
  /\ hoveredProperty = NoId
  /\ lastTouchDistance = R(0)
  /\ isDraggingProperty = NoId
  /\ propertyDragOffset = [x |-> R(0), y |-> R(0)]
  /\ showOnlyLeads \in BOOLEAN
  /\ hasCallback \in BOOLEAN
  /\ selectedPropertyId = NoId
  /\ raised = FALSE
  /\ frameBaseline = R(0)
  /\ pinchRun = [scale |-> R(1), distance |-> R(0)]
  /\ held = {}
  /\ clickPending = FALSE
  /\ nTouches = 0
  /\ selectEvents = << >>
  /\ positionUpdates = << >>
  /\ lastEvent = "mount"
  /\ seqStart = NoPoint
  /\ seqPure = FALSE
  /\ seqGestured = FALSE
  /\ panStart = [p |-> NoPoint, ox |-> R(0), oy |-> R(0)]
  /\ grabStart = [p |-> NoPoint, vp |-> InitialViewport]
  /\ modifier = FALSE
  /\ steps = 0

\* the canvas after the effects of the mount: a new canvas is 300 by 150
MountedCanvas(layout, state) ==
  /\ rect = [width |-> layout.width, height |-> layout.height]
  /\ devicePixelRatio = layout.devicePixelRatio
  /\ canvasState = state
  /\ reloaded = FALSE
  /\ LET first == resizeCanvas([width |-> 300, height |-> 150], DefaultContext, rect,
                               devicePixelRatio, viewport, properties, leads,
                               showOnlyLeads, hoveredProperty, selectedPropertyId)
         second == drawGridPass(first.ctx, rect, viewport, properties, leads,
                                showOnlyLeads, hoveredProperty, selectedPropertyId)
     IN  /\ backing = first.backing
         /\ ctx = second.ctx
         /\ passes = first.frames \o second.frames
         /\ effectError = (first.raised \/ second.raised)

\* the layout of the canvas at mount
InitialLayout == [width |-> RectWidth, height |-> RectHeight, devicePixelRatio |-> R(1)]

\* any device, no pointer on the canvas yet; every marker has a gridPosition,
\* as the Property type declares
Init ==
  /\ Mounted
  /\ isMobile \in BOOLEAN
  /\ unplaced = FALSE
  /\ pointerAt = NoPoint
  /\ MountedCanvas(InitialLayout, "2d")

\* a device without touch, the mouse resting over the canvas at mount
InitMouse ==
  /\ Mounted
  /\ isMobile = FALSE
  /\ unplaced = FALSE
  /\ pointerAt \in Points
  /\ MountedCanvas(InitialLayout, "2d")

\* any device, the lists hold markers without a gridPosition
InitUnplaced ==
  /\ Mounted
  /\ isMobile \in BOOLEAN
  /\ unplaced = TRUE
  /\ pointerAt = NoPoint
  /\ MountedCanvas(InitialLayout, "2d")

\* an input event can be delivered: the browser dispatches the click that
\* follows a mouseup before anything else
Ready == steps < MaxSteps /\ ~clickPending

\* there is a canvas element for the pointer events to be delivered to
HasCanvas == canvasState # "none"

\* the owner's handlePropertySelect: the selected id follows the event
Selected(events) == IF events = << >> THEN selectedPropertyId ELSE events[Len(events)]


\* ------------------------------------------------------------------------
\* Mouse handlers (bound when the device is not a touch device)
\* ------------------------------------------------------------------------
\* a mouse-down that grabs the marker under the pointer whatever the keys
handleMouseDownAnyKey(p, shiftKey) ==
  LET clicked == HitTest(p, viewport)
  IN  IF clicked = TypeError
      THEN /\ raised' = TRUE
           /\ UNCHANGED << isDragging, dragStart, isDraggingProperty, propertyDragOffset >>
      ELSE IF clicked # NoId
      THEN /\ isDraggingProperty' = clicked
           /\ raised' = FALSE
           /\ propertyDragOffset' =
                [x |-> RSub(R(p[1] - RectLeft), toScreenX(PropertyOf(clicked), viewport)),
                 y |-> RSub(R(p[2] - RectTop), toScreenY(PropertyOf(clicked), viewport))]
           /\ UNCHANGED << isDragging, dragStart >>
      ELSE /\ isDragging' = TRUE
           /\ dragStart' = [x |-> RSub(R(p[1]), viewport.offsetX),
                            y |-> RSub(R(p[2]), viewport.offsetY)]
           /\ raised' = FALSE
           /\ UNCHANGED << isDraggingProperty, propertyDragOffset >>

\* handleMouseDown: shift on a marker grabs it, anything else starts a pan
handleMouseDown(p, shiftKey) ==
  LET clicked == HitTest(p, viewport)
  IN  IF clicked = TypeError
      THEN /\ raised' = TRUE
           /\ UNCHANGED << isDragging, dragStart, isDraggingProperty, propertyDragOffset >>
      ELSE IF clicked # NoId /\ shiftKey
      THEN /\ isDraggingProperty' = clicked
           /\ raised' = FALSE
           /\ propertyDragOffset' =
                [x |-> RSub(R(p[1] - RectLeft), toScreenX(PropertyOf(clicked), viewport)),
                 y |-> RSub(R(p[2] - RectTop), toScreenY(PropertyOf(clicked), viewport))]
           /\ UNCHANGED << isDragging, dragStart >>
      ELSE /\ isDragging' = TRUE
           /\ dragStart' = [x |-> RSub(R(p[1]), viewport.offsetX),
                            y |-> RSub(R(p[2]), viewport.offsetY)]
           /\ raised' = FALSE
           /\ UNCHANGED << isDraggingProperty, propertyDragOffset >>

\* a button goes down where the mouse is
MouseDown(shiftKey, button) ==
  /\ Ready
  /\ HasCanvas
  /\ ~isMobile
  /\ pointerAt # NoPoint
  /\ button \notin held
  /\ handleMouseDown(pointerAt, shiftKey)
  /\ held' = held \cup {button}
  /\ seqStart' = IF held = {} THEN pointerAt ELSE seqStart
  /\ seqPure' = (held = {} /\ button = 0 /\ ~shiftKey)
  /\ seqGestured' = IF held = {} THEN FALSE ELSE seqGestured
  /\ panStart' = IF raised' \/ (HitTest(pointerAt, viewport) # NoId /\ shiftKey)
                 THEN panStart
                 ELSE [p |-> pointerAt, ox |-> viewport.offsetX, oy |-> viewport.offsetY]
  /\ grabStart' = IF ~raised' /\ HitTest(pointerAt, viewport) # NoId /\ shiftKey
                  THEN [p |-> pointerAt, vp |-> viewport]
                  ELSE grabStart
  /\ selectEvents' = << >>
  /\ positionUpdates' = << >>
  /\ lastEvent' = "mousedown"
  /\ frameBaseline' = R(0)
  /\ modifier' = shiftKey
  /\ steps' = steps + 1
  /\ UNCHANGED << viewport, hoveredProperty, lastTouchDistance, propVars,
                  selectedPropertyId, clickPending, nTouches, pointerAt >>
  /\ TrackRun
  /\ Flush

\* an inverse projection that forgets the offset
toWorldNoOffset(m, offset, scale) == RDiv(m, scale)

\* the world coordinate under a screen coordinate: the inverse projection of
\* the drag handler
toWorld(m, offset, scale) == RDiv(RSub(m, offset), scale)

\* the screen coordinate of a world coordinate: the projection of drawGrid
toScreen(w, offset, scale) == RAdd(RMul(w, scale), offset)

\* a reported position that forgets the grab offset
DraggedPositionNoOffset(p) ==
  [x |-> RDiv(RSub(R(p[1] - RectLeft), viewport.offsetX), viewport.scale),
   y |-> RDiv(RSub(R(p[2] - RectTop), viewport.offsetY), viewport.scale)]

\* the world position handleMouseMove reports for the dragged marker
DraggedPosition(p) ==
  [x |-> toWorld(RSub(R(p[1] - RectLeft), propertyDragOffset.x),
                 viewport.offsetX, viewport.scale),
   y |-> toWorld(RSub(R(p[2] - RectTop), propertyDragOffset.y),
                 viewport.offsetY, viewport.scale)]

\* a pan move that adds the pointer's distance from the anchor to the offset
PanToAccumulated(p) ==
  [viewport EXCEPT !.offsetX = RAdd(viewport.offsetX, RSub(R(p[1]), dragStart.x)),
                   !.offsetY = RAdd(viewport.offsetY, RSub(R(p[2]), dragStart.y))]

\* a pan move that does not carry the scale over
PanToUnscaled(p) ==
  [scale |-> R(1),
   offsetX |-> RSub(R(p[1]), dragStart.x),
   offsetY |-> RSub(R(p[2]), dragStart.y)]

\* the viewport of a pan move: the offset is assigned from the anchor
PanTo(p) ==
  [viewport EXCEPT !.offsetX = RSub(R(p[1]), dragStart.x),
                   !.offsetY = RSub(R(p[2]), dragStart.y)]

\* a mouse move that pans whether or not a pan has been started
handleMouseMoveAlwaysPans(p) ==
  IF isDraggingProperty # NoId /\ hasCallback
  THEN /\ positionUpdates' = << [id |-> isDraggingProperty, pos |-> DraggedPosition(p)] >>
       /\ raised' = FALSE
       /\ UNCHANGED << viewport, hoveredProperty >>
  ELSE /\ viewport' = PanTo(p)
       /\ positionUpdates' = << >>
       /\ raised' = FALSE
       /\ UNCHANGED hoveredProperty

\* a mouse move that looks for the hovered marker during a pan as well
handleMouseMoveHoversInPan(p) ==
  IF isDraggingProperty # NoId /\ hasCallback
  THEN /\ positionUpdates' = << [id |-> isDraggingProperty, pos |-> DraggedPosition(p)] >>
       /\ raised' = FALSE
       /\ UNCHANGED << viewport, hoveredProperty >>
  ELSE LET hoveredProp == HitTest(p, viewport)
       IN  /\ viewport' = IF isDragging THEN PanTo(p) ELSE viewport
           /\ hoveredProperty' = IF hoveredProp = TypeError THEN hoveredProperty
                                 ELSE hoveredProp
           /\ raised' = (hoveredProp = TypeError)
           /\ positionUpdates' = << >>

\* handleMouseMove: marker drag, else pan, else hover
handleMouseMove(p) ==
  IF isDraggingProperty # NoId /\ hasCallback
  THEN /\ positionUpdates' = << [id |-> isDraggingProperty, pos |-> DraggedPosition(p)] >>
       /\ raised' = FALSE
       /\ UNCHANGED << viewport, hoveredProperty >>
  ELSE IF isDragging
  THEN /\ viewport' = PanTo(p)
       /\ positionUpdates' = << >>
       /\ raised' = FALSE
       /\ UNCHANGED hoveredProperty
  ELSE LET hoveredProp == HitTest(p, viewport)
       IN  /\ hoveredProperty' = IF hoveredProp = TypeError THEN hoveredProperty
                                 ELSE hoveredProp
           /\ raised' = (hoveredProp = TypeError)
           /\ positionUpdates' = << >>
           /\ UNCHANGED viewport

\* the mouse enters the canvas at p or moves to p
MouseMove(p) ==
  /\ Ready
  /\ HasCanvas
  /\ ~isMobile
  /\ p # pointerAt
  /\ handleMouseMove(p)
  /\ pointerAt' = p
  /\ seqPure' = FALSE
  /\ seqGestured' = (seqGestured \/ held # {})
  /\ selectEvents' = << >>
  /\ lastEvent' = "mousemove"
  /\ frameBaseline' = R(0)
  /\ modifier' = FALSE
  /\ steps' = steps + 1
  /\ UNCHANGED << isDragging, dragStart, lastTouchDistance, isDraggingProperty,
                  propertyDragOffset, propVars, selectedPropertyId, held,
                  clickPending, nTouches, seqStart, panStart, grabStart >>
  /\ TrackRun
  /\ Flush

\* a mouse-up that leaves the pan flag set
handleMouseUpKeepsPan ==
  /\ isDraggingProperty' = NoId
  /\ UNCHANGED isDragging

\* handleMouseUp: both mouse modes end
handleMouseUp ==
  /\ isDragging' = FALSE
  /\ isDraggingProperty' = NoId

\* a button is released where the mouse is; the release of the primary
\* button is followed by a click at the same position
MouseUp(button) ==
  /\ Ready
  /\ HasCanvas
  /\ ~isMobile
  /\ pointerAt # NoPoint
  /\ button \in held
  /\ handleMouseUp
  /\ held' = held \ {button}
  /\ clickPending' = (button = 0)
  /\ selectEvents' = << >>
  /\ positionUpdates' = << >>
  /\ lastEvent' = "mouseup"
  /\ frameBaseline' = R(0)
  /\ raised' = FALSE
  /\ modifier' = FALSE
  /\ steps' = steps + 1
  /\ UNCHANGED << viewport, dragStart, hoveredProperty, lastTouchDistance,
                  propertyDragOffset, propVars, selectedPropertyId, nTouches,
                  pointerAt, seqStart, seqPure, seqGestured, panStart, grabStart >>
  /\ TrackRun
  /\ Flush

\* onMouseLeave is bound to handleMouseUp; the mouse is off the canvas
MouseLeave ==
  /\ Ready
  /\ HasCanvas
  /\ ~isMobile
  /\ pointerAt # NoPoint
  /\ handleMouseUp
  /\ pointerAt' = NoPoint
  /\ held' = {}
  /\ seqStart' = NoPoint
  /\ seqPure' = FALSE
  /\ seqGestured' = FALSE
  /\ selectEvents' = << >>
  /\ positionUpdates' = << >>
  /\ lastEvent' = "mouseleave"
  /\ frameBaseline' = R(0)
  /\ raised' = FALSE
  /\ modifier' = FALSE
  /\ steps' = steps + 1
  /\ UNCHANGED << viewport, dragStart, hoveredProperty, lastTouchDistance,
                  propertyDragOffset, propVars, selectedPropertyId, clickPending,
                  nTouches, panStart, grabStart >>
  /\ TrackRun
  /\ Flush

\* a click that calls onPropertySelect whether or not a marker was found
handleClickUnguarded(p) ==
  IF isDragging \/ isDraggingProperty # NoId
  THEN selectEvents' = << >> /\ raised' = FALSE
  ELSE LET clicked == HitTest(p, viewport)
       IN  /\ selectEvents' = IF clicked # TypeError THEN << clicked >> ELSE << >>
           /\ raised' = (clicked = TypeError)

\* handleClick: no selection while a mode is active, else select the marker hit
handleClick(p) ==
  IF isDragging \/ isDraggingProperty # NoId
  THEN selectEvents' = << >> /\ raised' = FALSE
  ELSE LET clicked == HitTest(p, viewport)
       IN  /\ selectEvents' = IF clicked \notin {NoId, TypeError} THEN << clicked >>
                              ELSE << >>
           /\ raised' = (clicked = TypeError)

\* the click the browser dispatches after the mouseup of the primary button
Click ==
  /\ steps < MaxSteps
  /\ ~isMobile
  /\ clickPending
  /\ handleClick(pointerAt)
  /\ selectedPropertyId' = Selected(selectEvents')
  /\ clickPending' = FALSE
  /\ positionUpdates' = << >>
  /\ lastEvent' = "click"
  /\ frameBaseline' = R(0)
  /\ modifier' = FALSE
  /\ steps' = steps + 1
  /\ UNCHANGED << compVars, propVars, held, nTouches, pointerAt, seqStart, seqPure,
                  seqGestured, panStart, grabStart >>
  /\ TrackRun
  /\ Flush

\* ------------------------------------------------------------------------
\* Touch handlers (bound when the device is a touch device)
\* ------------------------------------------------------------------------
\* handleTouchStart: n = e.touches.length, t0 and t1 = e.touches[0], e.touches[1]
\* a touch start that anchors the pan at the finger, without the offset
handleTouchStartIgnoresOffset(n, t0, t1) ==
  IF n = 1
  THEN /\ isDragging' = TRUE
       /\ dragStart' = [x |-> R(t0[1]), y |-> R(t0[2])]
       /\ UNCHANGED << lastTouchDistance, isDraggingProperty, propertyDragOffset >>
  ELSE IF n = 2
  THEN /\ lastTouchDistance' = getTouchDistance(t0, t1)
       /\ isDragging' = FALSE
       /\ UNCHANGED << dragStart, isDraggingProperty, propertyDragOffset >>
  ELSE UNCHANGED << isDragging, dragStart, lastTouchDistance, isDraggingProperty,
                    propertyDragOffset >>

\* a touch start that leaves the pan running when the second finger lands
handleTouchStartKeepsPan(n, t0, t1) ==
  IF n = 1
  THEN /\ isDragging' = TRUE
       /\ dragStart' = [x |-> RSub(R(t0[1]), viewport.offsetX),
                        y |-> RSub(R(t0[2]), viewport.offsetY)]
       /\ UNCHANGED << lastTouchDistance, isDraggingProperty, propertyDragOffset >>
  ELSE IF n = 2
  THEN /\ lastTouchDistance' = getTouchDistance(t0, t1)
       /\ UNCHANGED << isDragging, dragStart, isDraggingProperty, propertyDragOffset >>
  ELSE UNCHANGED << isDragging, dragStart, lastTouchDistance, isDraggingProperty,
                    propertyDragOffset >>

\* a touch start that grabs the marker under a single finger
handleTouchStartGrabs(n, t0, t1) ==
  IF n = 1 /\ HitTest(t0, viewport) \notin {NoId, TypeError}
  THEN /\ isDraggingProperty' = HitTest(t0, viewport)
       /\ propertyDragOffset' = [x |-> R(0), y |-> R(0)]
       /\ UNCHANGED << isDragging, dragStart, lastTouchDistance >>
  ELSE IF n = 1
  THEN /\ isDragging' = TRUE
       /\ dragStart' = [x |-> RSub(R(t0[1]), viewport.offsetX),
                        y |-> RSub(R(t0[2]), viewport.offsetY)]
       /\ UNCHANGED << lastTouchDistance, isDraggingProperty, propertyDragOffset >>
  ELSE IF n = 2
  THEN /\ lastTouchDistance' = getTouchDistance(t0, t1)
       /\ isDragging' = FALSE
       /\ UNCHANGED << dragStart, isDraggingProperty, propertyDragOffset >>
  ELSE UNCHANGED << isDragging, dragStart, lastTouchDistance, isDraggingProperty,
                    propertyDragOffset >>

handleTouchStart(n, t0, t1) ==
  IF n = 1
  THEN /\ isDragging' = TRUE
       /\ dragStart' = [x |-> RSub(R(t0[1]), viewport.offsetX),
                        y |-> RSub(R(t0[2]), viewport.offsetY)]
       /\ UNCHANGED << lastTouchDistance, isDraggingProperty, propertyDragOffset >>
  ELSE IF n = 2
  THEN /\ lastTouchDistance' = getTouchDistance(t0, t1)
       /\ isDragging' = FALSE
       /\ UNCHANGED << dragStart, isDraggingProperty, propertyDragOffset >>
  ELSE UNCHANGED << isDragging, dragStart, lastTouchDistance, isDraggingProperty,
                    propertyDragOffset >>

\* the positions e.touches[0] and e.touches[1] an event with n touches can
\* carry; the handlers read no position of an event with three or more
TouchInputs(n) ==
  IF n = 1 THEN { <<q, NoPoint>> : q \in Points }
  ELSE IF n = 2 THEN TouchPairs
  ELSE { <<q, NoPoint>> : q \in IF pointerAt = NoPoint THEN Points ELSE {pointerAt} }

\* k more fingers land; t holds the first two touches of the event, shiftKey
\* the state of the Shift key of a keyboard, which the handler does not read
TouchStart(k, t, shiftKey) ==
  /\ Ready
  /\ HasCanvas
  /\ isMobile
  /\ nTouches + k <= MaxTouches
  /\ handleTouchStart(nTouches + k, t[1], t[2])
  /\ nTouches' = nTouches + k
  /\ pointerAt' = t[1]
  /\ seqStart' = IF nTouches = 0 THEN t[1] ELSE seqStart
  /\ seqPure' = (nTouches = 0 /\ k = 1)
  /\ seqGestured' = IF nTouches = 0 THEN FALSE ELSE seqGestured
  /\ panStart' = IF nTouches + k = 1
                 THEN [p |-> t[1], ox |-> viewport.offsetX, oy |-> viewport.offsetY]
                 ELSE panStart
  /\ selectEvents' = << >>
  /\ positionUpdates' = << >>
  /\ lastEvent' = "touchstart"
  /\ frameBaseline' = R(0)
  /\ raised' = FALSE
  /\ modifier' = shiftKey
  /\ steps' = steps + 1
  /\ UNCHANGED << viewport, hoveredProperty, propVars, selectedPropertyId, held,
                  clickPending, grabStart >>
  /\ TrackRun
  /\ Flush

\* the clamp without its lower bound
ClampScaleNoFloor(s) == RMin(R(3), s)

\* Math.max(0.3, Math.min(3, s))
ClampScale(s) == RMax(<<3, 10>>, RMin(R(3), s))

\* the viewport after a pinch frame with a positive baseline
PinchTo(distance, t0, t1) ==
  LET scaleFactor == RDiv(distance, lastTouchDistance)
      newScale == ClampScale(RMul(viewport.scale, scaleFactor))
      centerX == RDiv(R(t0[1] + t1[1]), R(2))
      centerY == RDiv(R(t0[2] + t1[2]), R(2))
      canvasCenterX == RDiv(R(rect.width), R(2))
      canvasCenterY == RDiv(R(rect.height), R(2))
      offsetAdjustX == RMul(RMul(RSub(centerX, canvasCenterX), RSub(scaleFactor, R(1))),
                            <<1, 10>>)
      offsetAdjustY == RMul(RMul(RSub(centerY, canvasCenterY), RSub(scaleFactor, R(1))),
                            <<1, 10>>)
  IN  [scale |-> newScale,
       offsetX |-> RSub(viewport.offsetX, offsetAdjustX),
       offsetY |-> RSub(viewport.offsetY, offsetAdjustY)]

\* a touch move without the guard on the baseline: the factor of a frame with
\* baseline 0 is Infinity, which Math.min(3, .) turns into scale 3
handleTouchMoveUnguarded(n, t0, t1) ==
  IF n = 1 /\ isDragging
  THEN /\ viewport' = PanTo(t0)
       /\ UNCHANGED lastTouchDistance
  ELSE IF n = 2
  THEN LET distance == getTouchDistance(t0, t1)
       IN  /\ viewport' = IF RLt(R(0), lastTouchDistance)
                          THEN PinchTo(distance, t0, t1)
                          ELSE [viewport EXCEPT !.scale = R(3)]
           /\ lastTouchDistance' = distance
  ELSE UNCHANGED << viewport, lastTouchDistance >>

\* a touch move that keeps the distance of the pinch start as baseline
handleTouchMoveKeepsBaseline(n, t0, t1) ==
  IF n = 1 /\ isDragging
  THEN /\ viewport' = PanTo(t0)
       /\ UNCHANGED lastTouchDistance
  ELSE IF n = 2
  THEN LET distance == getTouchDistance(t0, t1)
       IN  /\ viewport' = IF RLt(R(0), lastTouchDistance)
                          THEN PinchTo(distance, t0, t1)
                          ELSE viewport
           /\ lastTouchDistance' = IF RLt(R(0), lastTouchDistance)
                                   THEN lastTouchDistance
                                   ELSE distance
  ELSE UNCHANGED << viewport, lastTouchDistance >>

\* handleTouchMove: one finger pans, two fingers pinch
handleTouchMove(n, t0, t1) ==
  IF n = 1 /\ isDragging
  THEN /\ viewport' = PanTo(t0)
       /\ UNCHANGED lastTouchDistance
  ELSE IF n = 2
  THEN LET distance == getTouchDistance(t0, t1)
       IN  /\ viewport' = IF RLt(R(0), lastTouchDistance)
                          THEN PinchTo(distance, t0, t1)
                          ELSE viewport
           /\ lastTouchDistance' = distance
  ELSE UNCHANGED << viewport, lastTouchDistance >>

\* fingers move; t holds the first two touches of the event
TouchMove(t) ==
  /\ Ready
  /\ HasCanvas
  /\ isMobile
  /\ nTouches >= 1
  /\ nTouches = 1 => t[1] # pointerAt
  /\ handleTouchMove(nTouches, t[1], t[2])
  /\ pointerAt' = t[1]
  /\ seqPure' = FALSE
  /\ seqGestured' = (seqGestured \/ t[1] # pointerAt \/ viewport' # viewport
                       \/ lastTouchDistance' # lastTouchDistance)
  /\ selectEvents' = << >>
  /\ positionUpdates' = << >>
  /\ lastEvent' = "touchmove"
  /\ frameBaseline' = lastTouchDistance
  /\ raised' = FALSE
  /\ modifier' = FALSE
  /\ steps' = steps + 1
  /\ UNCHANGED << isDragging, dragStart, hoveredProperty, isDraggingProperty,
                  propertyDragOffset, propVars, selectedPropertyId, held,
                  clickPending, nTouches, seqStart, panStart, grabStart >>
  /\ TrackRun
  /\ Flush

\* a touch end that keeps the pinch baseline when the last fingers lift
handleTouchEndKeepsPinch(n, c, p) ==
  LET tapped == IF n = 0 /\ isDragging /\ c = 1 THEN HitTest(p, viewport) ELSE NoId
  IN  /\ selectEvents' = IF tapped \notin {NoId, TypeError} THEN << tapped >> ELSE << >>
      /\ raised' = (tapped = TypeError)
      /\ isDragging' = IF n = 0 /\ tapped # TypeError THEN FALSE ELSE isDragging
      /\ lastTouchDistance' = IF n = 1 THEN R(0) ELSE lastTouchDistance

\* handleTouchEnd: n = e.touches.length, c = e.changedTouches.length,
\* p = e.changedTouches[0]
\* p = e.changedTouches[0]; a hit test that throws leaves the handler before
\* it resets isDragging and lastTouchDistance
handleTouchEnd(n, c, p) ==
  IF n = 0
  THEN LET tapped == IF isDragging /\ c = 1 THEN HitTest(p, viewport) ELSE NoId
       IN  IF tapped = TypeError
           THEN /\ raised' = TRUE
                /\ selectEvents' = << >>
                /\ UNCHANGED << isDragging, lastTouchDistance >>
           ELSE /\ raised' = FALSE
                /\ selectEvents' = IF tapped # NoId THEN << tapped >> ELSE << >>
                /\ isDragging' = FALSE
                /\ lastTouchDistance' = R(0)
  ELSE IF n = 1
  THEN /\ lastTouchDistance' = R(0)
       /\ selectEvents' = << >>
       /\ raised' = FALSE
       /\ UNCHANGED isDragging
  ELSE /\ selectEvents' = << >>
       /\ raised' = FALSE
       /\ UNCHANGED << isDragging, lastTouchDistance >>

\* where the first lifted finger can be: a single finger lifts where it was
LiftedAt == IF nTouches = 1 THEN {pointerAt} ELSE Points

\* where the first remaining finger can be after c fingers are lifted
RemainingAt(c) == IF nTouches = c THEN {NoPoint} ELSE Points

\* c fingers are lifted, the first of them at p; the first remaining one is at q
TouchEnd(c, p, q) ==
  /\ Ready
  /\ HasCanvas
  /\ isMobile
  /\ handleTouchEnd(nTouches - c, c, p)
  /\ selectedPropertyId' = Selected(selectEvents')
  /\ nTouches' = nTouches - c
  /\ pointerAt' = q
  /\ positionUpdates' = << >>
  /\ lastEvent' = "touchend"
  /\ frameBaseline' = R(0)
  /\ modifier' = FALSE
  /\ steps' = steps + 1
  /\ UNCHANGED << viewport, dragStart, hoveredProperty, isDraggingProperty,
                  propertyDragOffset, propVars, held, clickPending, seqStart,
                  seqPure, seqGestured, panStart, grabStart >>
  /\ TrackRun
  /\ Flush

\* the browser cancels the touches; the canvas binds no handler for it
TouchCancel ==
  /\ Ready
  /\ HasCanvas
  /\ isMobile
  /\ nTouches >= 1
  /\ nTouches' = 0
  /\ pointerAt' = NoPoint
  /\ seqPure' = FALSE
  /\ selectEvents' = << >>
  /\ positionUpdates' = << >>
  /\ lastEvent' = "touchcancel"
  /\ frameBaseline' = R(0)
  /\ raised' = FALSE
  /\ modifier' = FALSE
  /\ steps' = steps + 1
  /\ UNCHANGED << compVars, propVars, selectedPropertyId, held, clickPending,
                  seqStart, seqGestured, panStart, grabStart >>
  /\ TrackRun
  /\ Flush

\* ------------------------------------------------------------------------
\* Zoom controls (the overlay is hidden on a touch device)
\* ------------------------------------------------------------------------
zoomIn == [viewport EXCEPT !.scale = RMin(RMul(viewport.scale, <<6, 5>>), R(3))]

\* a zoom-out by a fifth of the scale, which is no inverse of the zoom-in
zoomOutByFifth == [viewport EXCEPT !.scale = RMax(RMul(viewport.scale, <<4, 5>>), <<3, 10>>)]

\* a zoom-out without the lower bound
zoomOutNoFloor == [viewport EXCEPT !.scale = RDiv(viewport.scale, <<6, 5>>)]

zoomOut == [viewport EXCEPT !.scale = RMax(RDiv(viewport.scale, <<6, 5>>), <<3, 10>>)]

\* a reset that puts the offset back and keeps the scale
resetViewKeepsScale == [viewport EXCEPT !.offsetX = R(0), !.offsetY = R(0)]

resetView == [offsetX |-> R(0), offsetY |-> R(0), scale |-> R(1)]

\* a button of the overlay is activated
Command(name, vp) ==
  /\ Ready
  /\ ~isMobile
  /\ viewport' = vp
  /\ seqPure' = FALSE
  /\ selectEvents' = << >>
  /\ positionUpdates' = << >>
  /\ lastEvent' = name
  /\ frameBaseline' = R(0)
  /\ raised' = FALSE
  /\ modifier' = FALSE
  /\ steps' = steps + 1
  /\ UNCHANGED << isDragging, dragStart, hoveredProperty, lastTouchDistance,
                  isDraggingProperty, propertyDragOffset, propVars,
                  selectedPropertyId, held, clickPending, nTouches, pointerAt,
                  seqStart, seqGestured, panStart, grabStart >>
  /\ TrackRun
  /\ Flush

ZoomIn == Command("zoomin", zoomIn)

ZoomOut == Command("zoomout", zoomOut)

ResetView == Command("reset", resetView)

\* ------------------------------------------------------------------------
\* Specification
\* ------------------------------------------------------------------------
Next ==
  \/ \E shiftKey \in BOOLEAN, button \in Buttons : MouseDown(shiftKey, button)
  \/ \E p \in Points : MouseMove(p)
  \/ \E button \in Buttons : MouseUp(button)
  \/ MouseLeave
  \/ Click
  \/ \E k \in 1..MaxTouches : \E t \in TouchInputs(nTouches + k) :
       \E shiftKey \in BOOLEAN : TouchStart(k, t, shiftKey)
  \/ \E t \in TouchInputs(nTouches) : TouchMove(t)
  \/ \E c \in 1..nTouches : \E p \in LiftedAt, q \in RemainingAt(c) : TouchEnd(c, p, q)
  \/ TouchCancel
  \/ ZoomIn
  \/ ZoomOut
  \/ ResetView

Spec == Init /\ [][Next]_vars

\* the window is resized or turned: the listener calls resizeCanvas, which
\* reads the new layout box and pixel ratio
Resize(layout) ==
  /\ Ready
  /\ rect' = [width |-> layout.width, height |-> layout.height]
  /\ devicePixelRatio' = layout.devicePixelRatio
  /\ LET resized == resizeCanvas(backing, ctx, rect', devicePixelRatio', viewport,
                                 properties, leads, showOnlyLeads, hoveredProperty,
                                 selectedPropertyId)
     IN  /\ backing' = resized.backing
         /\ ctx' = resized.ctx
         /\ passes' = resized.frames
         /\ effectError' = resized.raised
  /\ selectEvents' = << >>
  /\ positionUpdates' = << >>
  /\ lastEvent' = "resize"
  /\ frameBaseline' = R(0)
  /\ raised' = FALSE
  /\ modifier' = FALSE
  /\ steps' = steps + 1
  /\ UNCHANGED << compVars, propVars, selectedPropertyId, held, clickPending,
                  nTouches, pointerAt, seqStart, seqPure, seqGestured, panStart,
                  grabStart, canvasState, reloaded >>
  /\ TrackRun

\* the owner passes another properties list: drawGrid is made anew and both
\* effects run
ReplaceMarkers ==
  /\ Ready
  /\ reloaded' = ~reloaded
  /\ selectEvents' = << >>
  /\ positionUpdates' = << >>
  /\ lastEvent' = "markers"
  /\ frameBaseline' = R(0)
  /\ raised' = FALSE
  /\ modifier' = FALSE
  /\ steps' = steps + 1
  /\ UNCHANGED << compVars, propVars, selectedPropertyId, held, clickPending,
                  nTouches, pointerAt, seqStart, seqPure, seqGestured, panStart,
                  grabStart, rect, devicePixelRatio, canvasState >>
  /\ TrackRun
  /\ RunEffects

\* the input events, the resizes of the window and the replacements of the
\* marker list
NextCanvas ==
  \/ Next
  \/ \E layout \in Layouts : Resize(layout)
  \/ ReplaceMarkers

\* any device, every list shown and the position callback registered
InitCanvas ==
  /\ Init
  /\ ~showOnlyLeads
  /\ hasCallback

SpecCanvas == InitCanvas /\ [][NextCanvas]_vars

\* the same where getContext gives no context, or the ref holds no canvas
InitNoContext ==
  /\ Mounted
  /\ isMobile \in BOOLEAN
  /\ unplaced = FALSE
  /\ pointerAt = NoPoint
  /\ ~showOnlyLeads
  /\ hasCallback
  /\ \E state \in {"nocontext", "none"} : MountedCanvas(InitialLayout, state)

SpecNoContext == InitNoContext /\ [][NextCanvas]_vars

\* the events of a device without touch
NextMouse ==
  \/ \E shiftKey \in BOOLEAN, button \in Buttons : MouseDown(shiftKey, button)
  \/ \E p \in Points : MouseMove(p)
  \/ \E button \in Buttons : MouseUp(button)
  \/ MouseLeave
  \/ Click
  \/ ZoomIn
  \/ ZoomOut
  \/ ResetView

SpecMouse == InitMouse /\ [][NextMouse]_vars

\* a device without touch on which the zoom-in button, or the zoom-out button,
\* has been activated seven times since the mount, which brings the scale from
\* 1 to the bound; the mouse rests over the canvas; steps counts the events
\* after these
InitZoomed ==
  /\ viewport \in { [InitialViewport EXCEPT !.scale = R(3)],
                    [InitialViewport EXCEPT !.scale = <<3, 10>>] }
  /\ lastEvent = IF viewport.scale = R(3) THEN "zoomin" ELSE "zoomout"
  /\ pinchRun = [scale |-> viewport.scale, distance |-> R(0)]
  /\ isDragging = FALSE
  /\ dragStart = [x |-> R(0), y |-> R(0)]
  /\ hoveredProperty = NoId
  /\ lastTouchDistance = R(0)
  /\ isDraggingProperty = NoId
  /\ propertyDragOffset = [x |-> R(0), y |-> R(0)]
  /\ showOnlyLeads \in BOOLEAN
  /\ hasCallback \in BOOLEAN
  /\ selectedPropertyId = NoId
  /\ raised = FALSE
  /\ frameBaseline = R(0)
  /\ held = {}
  /\ clickPending = FALSE
  /\ nTouches = 0
  /\ selectEvents = << >>
  /\ positionUpdates = << >>
  /\ seqStart = NoPoint
  /\ seqPure = FALSE
  /\ seqGestured = FALSE
  /\ panStart = [p |-> NoPoint, ox |-> R(0), oy |-> R(0)]
  /\ grabStart = [p |-> NoPoint, vp |-> InitialViewport]
  /\ modifier = FALSE
  /\ steps = 0
  /\ isMobile = FALSE
  /\ unplaced = FALSE
  /\ pointerAt \in Points
  /\ MountedCanvas(InitialLayout, "2d")

SpecZoomed == InitZoomed /\ [][NextMouse]_vars

SpecUnplaced == InitUnplaced /\ [][Next]_vars

\* ------------------------------------------------------------------------
\* Gesture modes and taps
\* ------------------------------------------------------------------------
Panning == isDragging
Pinching == RLt(R(0), lastTouchDistance)
DraggingMarker == isDraggingProperty # NoId
Idle == ~Panning /\ ~Pinching /\ ~DraggingMarker

\* every pointer has just been released
AllReleased ==
  \/ lastEvent \in {"mouseup", "mouseleave"}
  \/ lastEvent = "touchend" /\ nTouches = 0

\* a pointer sequence has just ended with the event that may select:
\* the click of the mouse, the touch end that leaves no finger
SequenceEnded ==
  \/ lastEvent = "click" /\ held = {}
  \/ lastEvent = "touchend" /\ nTouches = 0

\* the sequence that has just ended was a tap at seqStart
TapEnded == SequenceEnded /\ seqPure

\* the marker drawn last among the candidates whose box contains p
Topmost(p, vp) ==
  LET hits == { i \in 1..Len(propertiesToCheck) :
                  Contains(propertiesToCheck[i], R(p[1] - RectLeft), R(p[2] - RectTop), vp) }
  IN  IF hits = {} THEN NoId
      ELSE propertiesToCheck[CHOOSE i \in hits : \A j \in hits : j <= i].id


\* ------------------------------------------------------------------------
\* Claims
\* ------------------------------------------------------------------------

\* C1: in every reachable state the viewport scale lies in [0.3, 3.0].
C1_ScaleInRange ==
  /\ RLe(<<3, 10>>, viewport.scale)
  /\ RLe(viewport.scale, R(3))

\* C1 witness: a pinch frame has driven the scale to the lower bound; the
\* pinch factors are products of 2 and 3, so 3/10 is reached only by clamping.
C1_Witness ==
  /\ lastEvent = "touchmove"
  /\ viewport.scale = <<3, 10>>

\* C2: at most one of panning, pinch-zooming and marker-dragging is active.
C2_SingleMode ==
  /\ ~(Panning /\ Pinching)
  /\ ~(Panning /\ DraggingMarker)
  /\ ~(Pinching /\ DraggingMarker)

\* C3: while a marker is held as the dragged marker, a pointer-move event
\* leaves the viewport unchanged.
C3_DragProducesNoPan ==
  [][(DraggingMarker /\ lastEvent' \in {"mousemove", "touchmove"})
       => viewport' = viewport]_vars

\* C4: a two-finger pinch frame with midpoint m that changes the viewport
\* keeps the world point under m where it was.
C4_PinchFocalInvariance ==
  [][\A t \in TouchPairs :
       (nTouches = 2 /\ TouchMove(t) /\ viewport' # viewport) =>
         LET mx == RDiv(R(t[1][1] + t[2][1]), R(2))
             my == RDiv(R(t[1][2] + t[2][2]), R(2))
         IN  /\ toWorld(mx, viewport.offsetX, viewport.scale)
                  = toWorld(mx, viewport'.offsetX, viewport'.scale)
             /\ toWorld(my, viewport.offsetY, viewport.scale)
                  = toWorld(my, viewport'.offsetY, viewport'.scale)]_vars

\* C5: a tap at a point where the hit test resolves a marker M emits exactly
\* one selection event, carrying M; with the initial viewport and the leads
\* as candidates, a tap at (100,100) selects A (at (100,100), size 50).
C5_TapSelects ==
  TapEnded =>
    /\ HitTest(seqStart, viewport) # NoId
         => selectEvents = << HitTest(seqStart, viewport) >>
    /\ (showOnlyLeads /\ viewport = InitialViewport /\ seqStart = <<100, 100>>)
         => selectEvents = << "A" >>

\* C5 witness: the tap of the example has selected A.
C5_Witness ==
  /\ TapEnded
  /\ lastEvent = "click"
  /\ seqStart = <<100, 100>>
  /\ viewport = InitialViewport
  /\ selectEvents = << "A" >>
  /\ selectedPropertyId = "A"

C7_OnlyTapSelects ==
  (SequenceEnded /\ seqGestured) => selectEvents = << >>

\* C8: a pointer-cancel returns the gesture state to Idle and emits no
\* selection event.
C8_CancelReturnsToIdle ==
  lastEvent = "touchcancel" => (Idle /\ selectEvents = << >>)

\* C9: whenever all pointers have been released (mouse up, mouse leave, a
\* touch end that leaves no finger) the gesture state is Idle.
C9_ReleaseReturnsToIdle ==
  AllReleased => Idle

\* C9 witness: two fingers have pinched (the scale has changed) and were
\* lifted together; the state is Idle.
C9_Witness ==
  /\ lastEvent = "touchend"
  /\ nTouches = 0
  /\ viewport.scale # R(1)
  /\ Idle

\* C10: when the boxes of several markers contain the point, the hit test
\* resolves the one drawn last: a tap selects the topmost marker under it.
C10_TopmostWins ==
  TapEnded =>
    selectEvents = IF Topmost(seqStart, viewport) = NoId THEN << >>
                   ELSE << Topmost(seqStart, viewport) >>

\* |a| of a fraction
QAbs(a) == <<Abs(a[1]), Abs(a[2])>>

\* p lies in the closed axis-aligned square of side size * scale centred on
\* the projection world * scale + offset of the marker m
InSquare(m, p, vp) ==
  LET cx == QAdd(QMul(R(m.x), vp.scale), vp.offsetX)
      cy == QAdd(QMul(R(m.y), vp.scale), vp.offsetY)
      side == QMul(R(m.size), vp.scale)
  IN  /\ RLe(QMul(R(2), QAbs(QSub(R(p[1] - RectLeft), cx))), side)
      /\ RLe(QMul(R(2), QAbs(QSub(R(p[2] - RectTop), cy))), side)

\* the candidates whose square contains p
SquaresAt(p, vp) ==
  { i \in 1..Len(propertiesToCheck) : InSquare(propertiesToCheck[i], p, vp) }

\* the hit test resolves, at p, a marker whose square contains p if there is
\* one and none otherwise
ResolvesBySquare(id, p, vp) ==
  /\ id = NoId <=> SquaresAt(p, vp) = {}
  /\ id # NoId => InSquare(PropertyOf(id), p, vp)

\* the last event was a mouse move that took the hover branch
Hovered ==
  /\ lastEvent = "mousemove"
  /\ ~isDragging
  /\ ~(isDraggingProperty # NoId /\ hasCallback)

\* C11: the hit test resolves a marker at p if and only if p lies in the
\* closed square of side size * scale centred on the marker's projection,
\* whatever shape the marker is drawn with, and none if no square contains p:
\* for the hover of a mouse move, for the selection of a tap and for every
\* pointer position under the viewport reached.
C11_HitTestIsSquare ==
  /\ Hovered => ResolvesBySquare(hoveredProperty, pointerAt, viewport)
  /\ TapEnded =>
       ResolvesBySquare(IF selectEvents = << >> THEN NoId ELSE selectEvents[1],
                        seqStart, viewport)
  /\ \A p \in Points : ResolvesBySquare(HitTest(p, viewport), p, viewport)

\* C11 witness: the mouse hovers at (400,400), a corner of the square of the
\* lead L (drawn as a hexagon of radius size / 2, which the corner is outside
\* of) and on its boundary; L is resolved.
C11_Witness ==
  /\ Hovered
  /\ viewport = InitialViewport
  /\ pointerAt = <<400, 400>>
  /\ hoveredProperty = "L"
  /\ 4 * SqDist(pointerAt, <<PropertyOf("L").x, PropertyOf("L").y>>)
       > PropertyOf("L").size * PropertyOf("L").size

\* the last event was a pointer move that took the pan branch
Panned ==
  \/ /\ lastEvent = "mousemove"
     /\ isDragging
     /\ ~(isDraggingProperty # NoId /\ hasCallback)
  \/ /\ lastEvent = "touchmove"
     /\ nTouches = 1
     /\ isDragging

\* C12: a pointer move of a pan that started at pointer position p0 with
\* offset o0 sets the offset to o0 + (p - p0) for the pointer position p of
\* the move, whatever the positions in between (back at p0 the offset is o0
\* again), and leaves the scale as it was.
C12_PanDriftFree ==
  [][Panned' =>
       /\ viewport'.offsetX = RAdd(panStart.ox, R(pointerAt'[1] - panStart.p[1]))
       /\ viewport'.offsetY = RAdd(panStart.oy, R(pointerAt'[2] - panStart.p[2]))
       /\ pointerAt' = panStart.p
            => (viewport'.offsetX = panStart.ox /\ viewport'.offsetY = panStart.oy)
       /\ viewport'.scale = viewport.scale]_vars

\* C12 witness: a pan has moved the pointer away from p0, which changed the
\* offset, and back to p0; the offset is o0 again.
C12_Witness ==
  /\ Panned
  /\ seqGestured
  /\ steps >= 3
  /\ pointerAt = panStart.p
  /\ viewport.offsetX = panStart.ox
  /\ viewport.offsetY = panStart.oy

\* the last event was a mouse move that took the marker-drag branch
DragMoved ==
  /\ lastEvent = "mousemove"
  /\ isDraggingProperty # NoId
  /\ hasCallback

\* grabOffset = p0 - toScreen(M.position), with the viewport of grab time
grabOffsetX == RSub(R(grabStart.p[1] - RectLeft),
                    toScreenX(PropertyOf(isDraggingProperty), grabStart.vp))
grabOffsetY == RSub(R(grabStart.p[2] - RectTop),
                    toScreenY(PropertyOf(isDraggingProperty), grabStart.vp))

\* the move called the position-update callback once, with the id of the
\* dragged marker and the world position toWorld(p - grabOffset)
ReportsDraggedPosition ==
  positionUpdates =
    << [id |-> isDraggingProperty,
        pos |-> [x |-> toWorld(RSub(R(pointerAt[1] - RectLeft), grabOffsetX),
                               viewport.offsetX, viewport.scale),
                 y |-> toWorld(RSub(R(pointerAt[2] - RectTop), grabOffsetY),
                               viewport.offsetY, viewport.scale)]] >>

\* the move reported the world position the marker has
ReportsOriginalPosition ==
  /\ Len(positionUpdates) = 1
  /\ positionUpdates[1].pos = [x |-> R(PropertyOf(isDraggingProperty).x),
                               y |-> R(PropertyOf(isDraggingProperty).y)]

\* C13 as claimed: every move of a marker drag reports the marker's id and
\* toWorld(p - grabOffset) once, and a move to the grab position p0 reports
\* the marker's original world position.
C13_DragReportsNoJump ==
  DragMoved =>
    /\ ReportsDraggedPosition
    /\ pointerAt = grabStart.p => ReportsOriginalPosition

\* C13 amended: every move of a marker drag reports the marker's id and
\* toWorld(p - grabOffset) once, and a move to the grab position p0 reports
\* the marker's original world position when the viewport is the one of
\* grab time.
C13_DragReportsPosition ==
  DragMoved =>
    /\ ReportsDraggedPosition
    /\ (pointerAt = grabStart.p /\ viewport = grabStart.vp) => ReportsOriginalPosition

\* C13 witness: B was grabbed at (140,100), 20 right of its centre, the mouse
\* has moved away and back to (140,100): the move reports (120,100) for B.
C13_Witness ==
  /\ DragMoved
  /\ seqGestured
  /\ steps >= 3
  /\ isDraggingProperty = "B"
  /\ grabStart.p = <<140, 100>>
  /\ pointerAt = grabStart.p
  /\ viewport = grabStart.vp
  /\ positionUpdates = << [id |-> "B", pos |-> [x |-> R(120), y |-> R(100)]] >>

\* the step is a single pointer-down from Idle: a mouse button, or one finger
\* landing on a canvas no finger touches
SingleMouseDown == Idle /\ held = {} /\ lastEvent' = "mousedown"
SingleTouchDown == Idle /\ nTouches = 0 /\ lastEvent' = "touchstart" /\ nTouches' = 1

\* the step starts a drag of the marker under the pointer, and no pan
StartsMarkerDrag ==
  /\ isDraggingProperty' = HitTest(pointerAt', viewport)
  /\ ~isDragging'

\* the step starts a pan and grabs no marker
StartsPan ==
  /\ isDragging'
  /\ isDraggingProperty' = NoId

\* C14 as claimed: a single pointer-down from Idle, of the mouse or of a
\* finger, starts a marker drag if and only if Shift is held and the hit test
\* at the pointer resolves a marker; in every other case it starts a pan and
\* grabs no marker.
C14_ShiftOnMarkerDrags ==
  [][(SingleMouseDown \/ SingleTouchDown) =>
       IF modifier' /\ HitTest(pointerAt', viewport) # NoId
       THEN StartsMarkerDrag
       ELSE StartsPan]_vars

\* C14 amended: a single mouse-down from Idle starts a marker drag if and
\* only if Shift is held and the hit test at the pointer resolves a marker,
\* and in every other case starts a pan and grabs no marker; a single finger
\* landing from Idle starts a pan and grabs no marker, Shift held or not.
C14_ShiftOnMarkerDragsByMouse ==
  [][/\ SingleMouseDown =>
          IF modifier' /\ HitTest(pointerAt', viewport) # NoId
          THEN StartsMarkerDrag
          ELSE StartsPan
     /\ SingleTouchDown => StartsPan]_vars

\* C14 witness: from Idle, a mouse-down with Shift on B at (140,100) has
\* grabbed B and started no pan.
C14_Witness ==
  /\ lastEvent = "mousedown"
  /\ modifier
  /\ held = {0}
  /\ pointerAt = <<140, 100>>
  /\ isDraggingProperty = "B"
  /\ ~isDragging

\* the ids of the markers drawGrid draws
DrawnIds == { drawGrid[i].id : i \in 1..Len(drawGrid) }

\* the candidates that have a position and whose square contains p
PlacedSquaresAt(p, vp) ==
  { i \in 1..Len(propertiesToCheck) :
      HasPosition(propertiesToCheck[i]) /\ InSquare(propertiesToCheck[i], p, vp) }

\* C15: with markers that have no position in the lists, rendering draws the
\* other markers and not these, no handler raises an error, and the hit
\* tests still resolve the markers that have a position: a hover resolves a
\* marker exactly when the square of one contains the pointer, a tap selects
\* one exactly when the square of one contains the tapped point.
C15_UnplacedSkipped ==
  /\ \A i \in 1..Len(propertiesToShow) :
       ~HasPosition(propertiesToShow[i]) => propertiesToShow[i].id \notin DrawnIds
  /\ viewport = InitialViewport =>
       \A i \in 1..Len(propertiesToShow) :
         HasPosition(propertiesToShow[i]) => propertiesToShow[i].id \in DrawnIds
  /\ ~raised
  /\ Hovered => (hoveredProperty # NoId <=> PlacedSquaresAt(pointerAt, viewport) # {})
  /\ TapEnded => (selectEvents # << >> <=> PlacedSquaresAt(seqStart, viewport) # {})

\* the rendering part of C15 alone, which holds: drawGrid skips a marker
\* without a position and draws the others
C15_RenderSkipsUnplaced ==
  /\ \A i \in 1..Len(propertiesToShow) :
       ~HasPosition(propertiesToShow[i]) => propertiesToShow[i].id \notin DrawnIds
  /\ viewport = InitialViewport =>
       \A i \in 1..Len(propertiesToShow) :
         HasPosition(propertiesToShow[i]) => propertiesToShow[i].id \in DrawnIds

\* C16: with no position-update callback registered, the pointer moves that
\* follow a Shift-held pointer-down on a marker (a marker drag and nothing
\* else) raise no error and change nothing that can be observed: not the
\* viewport, not the hovered marker, not the selection, and no marker position
\* is reported.
C16_DragWithoutCallbackIsInert ==
  [][(/\ ~hasCallback
      /\ isDraggingProperty # NoId
      /\ ~isDragging
      /\ lastEvent' = "mousemove")
       => /\ viewport' = viewport
          /\ hoveredProperty' = hoveredProperty
          /\ selectedPropertyId' = selectedPropertyId
          /\ positionUpdates' = << >>
          /\ ~raised']_vars

\* C17: under every viewport reached, toScreen(toWorld(p)) = p for every
\* screen point p, and the projection of the world position a drag move
\* reports is the screen position it was computed from, the pointer minus
\* the grab offset (numbers are exact here; doubles agree up to rounding).
C17_RoundTrip ==
  /\ \A p \in Points :
       /\ toScreen(toWorld(R(p[1]), viewport.offsetX, viewport.scale),
                   viewport.offsetX, viewport.scale) = R(p[1])
       /\ toScreen(toWorld(R(p[2]), viewport.offsetY, viewport.scale),
                   viewport.offsetY, viewport.scale) = R(p[2])
  /\ DragMoved =>
       /\ toScreen(positionUpdates[1].pos.x, viewport.offsetX, viewport.scale)
            = RSub(R(pointerAt[1] - RectLeft), propertyDragOffset.x)
       /\ toScreen(positionUpdates[1].pos.y, viewport.offsetY, viewport.scale)
            = RSub(R(pointerAt[2] - RectTop), propertyDragOffset.y)

\* C17 witness: a drag move under a zoomed viewport has reported a world
\* position that is not a whole number.
C17_Witness ==
  /\ DragMoved
  /\ viewport.scale # R(1)
  /\ positionUpdates[1].pos.x[2] # 1

\* the projected size of a marker
ScreenSize(property, vp) == RMul(R(property.size), vp.scale)

\* C18: a pan move that changes the offset by (dx, dy) moves the projected
\* position of every marker drawn by exactly (dx, dy) and leaves the projected
\* sizes and the differences between the projected positions of any two
\* markers as they were.
C18_PanInvariance ==
  [][Panned' =>
       LET dx == RSub(viewport'.offsetX, viewport.offsetX)
           dy == RSub(viewport'.offsetY, viewport.offsetY)
           n == Len(propertiesToShow)
       IN  /\ \A i \in 1..n :
                LET m == propertiesToShow[i]
                IN  /\ toScreenX(m, viewport') = RAdd(toScreenX(m, viewport), dx)
                    /\ toScreenY(m, viewport') = RAdd(toScreenY(m, viewport), dy)
                    /\ ScreenSize(m, viewport') = ScreenSize(m, viewport)
           /\ \A i, j \in 1..n :
                LET a == propertiesToShow[i]
                    b == propertiesToShow[j]
                IN  /\ RSub(toScreenX(a, viewport'), toScreenX(b, viewport'))
                         = RSub(toScreenX(a, viewport), toScreenX(b, viewport))
                    /\ RSub(toScreenY(a, viewport'), toScreenY(b, viewport'))
                         = RSub(toScreenY(a, viewport), toScreenY(b, viewport))]_vars

\* C18 witness: a pan move under a zoomed viewport has moved the offset away
\* from (0,0).
C18_Witness ==
  /\ Panned
  /\ viewport.scale # R(1)
  /\ viewport.offsetX # R(0)

\* a viewport of finite numbers: every denominator is positive
Finite(vp) == vp.scale[2] > 0 /\ vp.offsetX[2] > 0 /\ vp.offsetY[2] > 0

\* C19: a two-finger move frame that finds the baseline distance 0 leaves
\* scale and offset as they were and records the distance of the fingers as
\* the new baseline; no frame divides by zero, the viewport stays finite.
C19_ZeroBaselineSkipsFrame ==
  [][/\ (nTouches = 2 /\ lastTouchDistance = R(0) /\ lastEvent' = "touchmove") =>
          \A t \in TouchPairs :
            TouchMove(t) =>
              /\ viewport' = viewport
              /\ lastTouchDistance' = getTouchDistance(t[1], t[2])
     /\ Finite(viewport')]_vars

\* C19 witness: a two-finger frame has found the baseline 0 and recorded a
\* positive distance; the viewport is still the initial one.
C19_Witness ==
  /\ lastEvent = "touchmove"
  /\ nTouches = 2
  /\ frameBaseline = R(0)
  /\ RLt(R(0), lastTouchDistance)
  /\ viewport = InitialViewport

\* C20: the reset command leaves the viewport at offset (0,0) and scale 1,
\* whatever the viewport was and whatever gestures came before.
C20_ResetRestoresViewport ==
  lastEvent = "reset" =>
    /\ viewport.offsetX = R(0)
    /\ viewport.offsetY = R(0)
    /\ viewport.scale = R(1)

\* C20 witness: in the middle of a pan that had moved the offset away from
\* (0,0) the reset has put the viewport back to offset (0,0) and scale 1.
C20_Witness ==
  /\ lastEvent = "reset"
  /\ isDragging
  /\ isDraggingProperty = NoId
  /\ seqGestured
  /\ panStart.ox = R(0)
  /\ pointerAt[1] # panStart.p[1]
  /\ viewport = [offsetX |-> R(0), offsetY |-> R(0), scale |-> R(1)]

\* ------------------------------------------------------------------------
\* Rendering, resize and the canvas
\* ------------------------------------------------------------------------
\* C21: a step changes the viewport only if it is a pan move (a mouse move or
\* a one-finger move while the canvas is being panned), a two-finger move or
\* one of the commands zoom in, zoom out and reset: hover moves, pointer-down,
\* pointer-up, click and tap, resize and the replacement of the marker list
\* leave offset and scale as they were.
C21_ViewportChangesOnlyByGesture ==
  [][viewport' # viewport =>
       \/ lastEvent' = "mousemove" /\ isDragging
       \/ lastEvent' = "touchmove" /\ nTouches = 1 /\ isDragging
       \/ lastEvent' = "touchmove" /\ nTouches = 2
       \/ lastEvent' \in {"zoomin", "zoomout", "reset"}]_vars

\* a resize or a replacement of the marker list has happened under a viewport
\* that a gesture had moved
C21_Witness ==
  /\ lastEvent \in {"resize", "markers"}
  /\ viewport # InitialViewport

\* the elements of a sequence
Range(seq) == { seq[i] : i \in 1..Len(seq) }

\* the draw calls of the last render pass: what the canvas shows
Canvas == IF passes = << >> THEN << >> ELSE Frame(passes[Len(passes)])

\* the markers on the canvas, in draw order
MarkersDrawn == SelectSeq(Canvas, LAMBDA call : call.op = "marker")

\* fill, stroke and line width of a drawn marker
StyleOf(call) == << call.fillStyle, call.strokeStyle, call.lineWidth >>

\* the styles of a selected marker, of a hovered one and of any other, for a
\* lead and for a regular property
SelectedStyle == { << "#00d9ff", "#ffffff", 3 >> }
HoveredStyle == { << "#10b981", "#ffffff", 2 >>, << "#3b82f6", "#ffffff", 2 >> }
NormalStyle == { << "#059669", "rgba(255, 255, 255, 0.3)", 1 >>,
                 << "#1d4ed8", "rgba(255, 255, 255, 0.3)", 1 >> }

MarkerOf(id) == CHOOSE m \in Range(leads \o properties) : m.id = id

\* the shape the category of a marker calls for
ShapeByCategory(property) ==
  IF property.propertyType = "commercial" THEN "rectangle"
  ELSE IF property.propertyType = "land" \/ IsLead(property, leads) THEN "hexagon"
  ELSE "square"

\* C23: every marker on the canvas has the shape of its category: a
\* rectangle for a commercial marker, a regular hexagon for a land marker or a
\* lead, a square for any other.
C23_ShapeByCategory ==
  \A call \in Range(MarkersDrawn) :
    call.shape.kind = ShapeByCategory(MarkerOf(call.id))

\* the last event was a mount, a resize or an orientation change
Resized == lastEvent \in {"mount", "resize"}

\* the canvas shows a render pass made after the last event, on a context
\* scaled by the pixel ratio, with the layout box and the state of now
Rerendered ==
  /\ passes # << >>
  /\ LET pass == passes[Len(passes)]
     IN  /\ pass.ctx.scale = devicePixelRatio
         /\ pass.rect = rect
         /\ pass.viewport = viewport
         /\ pass.properties = properties
         /\ pass.leads = leads
         /\ pass.showOnlyLeads = showOnlyLeads
         /\ pass.hoveredProperty = hoveredProperty
         /\ pass.selectedPropertyId = selectedPropertyId

\* C24 as claimed: after every mount, resize and orientation change the
\* backing store is the layout size times the device pixel ratio, the scale
\* of the context is the device pixel ratio (not a product of the ratios of
\* the events so far), and the canvas has been rendered again.
C24_BackingIsLayoutTimesRatio ==
  /\ R(backing.width) = RMul(R(rect.width), devicePixelRatio)
  /\ R(backing.height) = RMul(R(rect.height), devicePixelRatio)
  /\ ctx.scale = devicePixelRatio
  /\ Resized => Rerendered

\* C24 amended: after every mount, resize and orientation change the backing
\* store is the layout size times the device pixel ratio cut to whole pixels,
\* the scale of the context is the device pixel ratio (not a product of the
\* ratios of the events so far), and the canvas has been rendered again.
C24_BackingIsWholePixels ==
  /\ RLe(R(backing.width), RMul(R(rect.width), devicePixelRatio))
  /\ RLt(RMul(R(rect.width), devicePixelRatio), R(backing.width + 1))
  /\ RLe(R(backing.height), RMul(R(rect.height), devicePixelRatio))
  /\ RLt(RMul(R(rect.height), devicePixelRatio), R(backing.height + 1))
  /\ ctx.scale = devicePixelRatio
  /\ Resized => Rerendered

\* a resize to a layout whose size times the pixel ratio is not whole, after
\* the effects have run for a change of the viewport
C24_Witness ==
  /\ lastEvent = "resize"
  /\ devicePixelRatio = <<3, 2>>
  /\ R(backing.width) # RMul(R(rect.width), devicePixelRatio)
  /\ viewport # InitialViewport

\* C25: without a canvas element or without a 2D context no render pass and
\* no resize throws or draws anything, and a resize or a render pass for a
\* new marker list leaves the viewport, the gesture and the hover and
\* selection as they were.
C25_NoCanvasNoEffect ==
  [][/\ ~effectError'
     /\ passes' = << >>
     /\ lastEvent' \in {"resize", "markers"} =>
          UNCHANGED << compVars, selectedPropertyId >>]_vars

\* without a context the window has been resized while the canvas was being
\* panned
C25_Witness ==
  /\ canvasState = "nocontext"
  /\ lastEvent = "resize"
  /\ rect.width # RectWidth
  /\ isDragging
  /\ passes = << >>

\* the closure values of a render pass: what it draws from
InputsOf(pass) ==
  << pass.rect, pass.viewport, pass.properties, pass.leads, pass.showOnlyLeads,
     pass.hoveredProperty, pass.selectedPropertyId >>

\* C26: when the effects make two render passes one after the other, the
\* second runs with the viewport, markers, hover and selection of the first
\* (the first has changed none of them) and, on the context as the first
\* left it, makes the draw calls the first made.
C26_RenderIdempotent ==
  Len(passes) = 2 =>
    /\ InputsOf(passes[2]) = InputsOf(passes[1])
    /\ Frame(passes[2]) = Frame(passes[1])

\* two passes in a row, the second on a context whose styles the first has
\* set, with a marker hovered under a viewport that was moved
C26_Witness ==
  /\ Len(passes) = 2
  /\ passes[2].ctx # passes[1].ctx
  /\ hoveredProperty # NoId
  /\ viewport # InitialViewport

MeetsCanvas(property, vp) ==
  LET x == toScreenX(property, vp)
      y == toScreenY(property, vp)
      half == RMul(RMul(R(property.size), vp.scale), <<1, 2>>)
  IN  /\ RLe(R(0), RAdd(x, half)) /\ RLe(RSub(x, half), R(rect.width))
      /\ RLe(R(0), RAdd(y, half)) /\ RLe(RSub(y, half), R(rect.height))

\* C28: every marker of the list shown whose square of side size * scale
\* around its projection meets the canvas rectangle is on the canvas: the
\* renderer skips only markers that lie wholly outside.
C28_CullOnlyOutside ==
  { property.id : property \in { m \in Range(propertiesToShow) : MeetsCanvas(m, viewport) } }
    \subseteq { call.id : call \in Range(MarkersDrawn) }

\* a marker is drawn whose centre is off the canvas and whose square reaches
\* into it
C28_Witness ==
  \E property \in Range(propertiesToShow) :
    /\ MeetsCanvas(property, viewport)
    /\ RLt(toScreenX(property, viewport), R(0))
    /\ \E call \in Range(MarkersDrawn) : call.id = property.id

\* the abbreviated currency value of the claim: thousands with K, millions to
\* one decimal with M ($450K for 450000, $1.2M for 1200000)
Abbreviated(value) ==
  IF value >= 1000000
  THEN [amount |-> Norm(Round(<<value, 100000>>), 10), unit |-> "M"]
  ELSE [amount |-> R(Round(<<value, 1000>>)), unit |-> "K"]

\* the size on the screen above which a marker is labelled
LegibilityThreshold == 30

\* C29: a marker on the canvas whose size on the screen exceeds the
\* threshold is labelled with its abbreviated value ($450K for 450000, $1.2M
\* for 1200000); a marker at or below the threshold has no label.
C29_LabelIsAbbreviatedValue ==
  \A call \in Range(MarkersDrawn) :
    IF RLt(R(LegibilityThreshold), call.shape.width)
    THEN /\ call.label # NoLabel
         /\ R(call.label.amount) = Abbreviated(MarkerOf(call.id).marketValue).amount
         /\ call.label.unit = Abbreviated(MarkerOf(call.id).marketValue).unit
    ELSE call.label = NoLabel

\* a pan move sets the offset to the pointer position minus the anchor
PansFromAnchor ==
  /\ viewport'.offsetX = RSub(R(pointerAt'[1]), dragStart.x)
  /\ viewport'.offsetY = RSub(R(pointerAt'[2]), dragStart.y)

\* C30 as claimed: a single pointer-down without a modifier key from Idle
\* starts a pan and records as anchor the viewport offset minus the pointer
\* position, and a pan move sets the offset to the pointer position minus the
\* anchor.
C30_AnchorIsOffsetMinusPointer ==
  [][/\ ((SingleMouseDown \/ SingleTouchDown) /\ ~modifier') =>
          /\ StartsPan
          /\ dragStart' = [x |-> RSub(viewport.offsetX, R(pointerAt'[1])),
                           y |-> RSub(viewport.offsetY, R(pointerAt'[2]))]
     /\ Panned' => PansFromAnchor]_vars

\* C30 amended: a single pointer-down without a modifier key from Idle
\* starts a pan and records as anchor the pointer position minus the viewport
\* offset, and a pan move sets the offset to the pointer position minus the
\* anchor.
C30_AnchorIsPointerMinusOffset ==
  [][/\ ((SingleMouseDown \/ SingleTouchDown) /\ ~modifier') =>
          /\ StartsPan
          /\ dragStart' = [x |-> RSub(R(pointerAt'[1]), viewport.offsetX),
                           y |-> RSub(R(pointerAt'[2]), viewport.offsetY)]
     /\ Panned' => PansFromAnchor]_vars

\* a pan has been started by a single pointer-down under an offset that an
\* earlier pan had moved
C30_Witness ==
  /\ lastEvent \in {"mousedown", "touchstart"}
  /\ ~modifier
  /\ isDragging
  /\ isDraggingProperty = NoId
  /\ viewport.offsetX # R(0)
  /\ dragStart.x = RSub(R(pointerAt[1]), viewport.offsetX)

\* a pinch frame that finds the scale at a clamp bound and whose factor
\* pushes beyond that bound
PinchAtBound ==
  /\ nTouches = 2
  /\ lastEvent' = "touchmove"
  /\ RLt(R(0), lastTouchDistance)
  /\ \/ viewport.scale = R(3) /\ RLt(lastTouchDistance, lastTouchDistance')
     \/ viewport.scale = <<3, 10>> /\ RLt(lastTouchDistance', lastTouchDistance)

\* C31: a pinch-move frame whose factor would push the scale beyond a clamp
\* bound while the scale is already at that bound leaves the whole viewport
\* unchanged, offset included.
C31_ClampedPinchLeavesViewport ==
  [][PinchAtBound => viewport' = viewport]_vars

\* the side of the square the find calls test a marker with
HitBoxSide(property, vp) == RMul(R(property.size), vp.scale)

\* the markers the find calls of the handlers go through
Candidates == { m \in Range(propertiesToCheck) : HasPosition(m) }

\* C32: every marker on the canvas is a candidate of the hit test of hover,
\* click, tap and drag start, whether only the leads are shown or not, and
\* its hit box is as wide and as high as the drawn shape.
C32_DrawnMarkersAreCandidates ==
  \A call \in Range(MarkersDrawn) :
    \E m \in Candidates :
      /\ m.id = call.id
      /\ HitBoxSide(m, viewport) = call.shape.width
      /\ HitBoxSide(m, viewport) = call.shape.height

\* the distances a second finger can have from the first one, at pointerAt
DistancesFrom(p) == { getTouchDistance(p, q) : q \in { q \in Points : Roots(p, q) # {} } }

\* the last event was one of the touch events the canvas handles
TouchEvents == {"touchstart", "touchmove", "touchend"}

\* a single finger is on the canvas and no pan is running: the finger that
\* remains of a pinch
RemainingFinger == nTouches = 1 /\ ~Panning

InRun ==
  /\ lastEvent = "touchmove"
  /\ nTouches = 2
  /\ RLt(R(0), pinchRun.distance)

\* C34: after every frame of a run of consecutive pinch frames without clamp
\* and without zero baseline, the scale is the scale before the first frame
\* times the distance of the fingers in the last frame over their distance at
\* the start of the run, and the baseline is the distance of the last frame.
C34_PinchTelescopes ==
  InRun =>
    /\ viewport.scale
         = RMul(pinchRun.scale, RDiv(lastTouchDistance, pinchRun.distance))
    /\ lastTouchDistance \in DistancesFrom(pointerAt)

\* a run of two frames with three different finger distances has changed
\* the scale
C34_Witness ==
  /\ InRun
  /\ RLt(R(0), frameBaseline)
  /\ frameBaseline # pinchRun.distance
  /\ frameBaseline # lastTouchDistance
  /\ lastTouchDistance # pinchRun.distance
  /\ viewport.scale # pinchRun.scale

\* the step of the zoom buttons
ZoomStep == <<6, 5>>

\* C35: the zoom-in command sets the scale to 1.2 times the scale, at most 3,
\* the zoom-out command to the scale over 1.2, at least 0.3, and both leave
\* offsetX and offsetY as they were; the zoom-out of the viewport that a
\* zoom-in without clamp leaves has the scale from before the zoom-in.
C35_ZoomCommands ==
  [][/\ lastEvent' = "zoomin" =>
          /\ viewport'.scale = RMin(RMul(viewport.scale, ZoomStep), R(3))
          /\ viewport'.offsetX = viewport.offsetX
          /\ viewport'.offsetY = viewport.offsetY
          /\ RLe(RMul(viewport.scale, ZoomStep), R(3)) =>
               zoomOut' = viewport
     /\ lastEvent' = "zoomout" =>
          /\ viewport'.scale = RMax(RDiv(viewport.scale, ZoomStep), <<3, 10>>)
          /\ viewport'.offsetX = viewport.offsetX
          /\ viewport'.offsetY = viewport.offsetY]_vars

\* a zoom-out on a panned viewport has left the scale at the lower bound:
\* the zoom-out of scale 3/10, which the floor cuts, or the zoom-out that
\* follows the zoom-in of scale 3/10
C35_Witness ==
  /\ lastEvent = "zoomout"
  /\ viewport.scale = <<3, 10>>
  /\ viewport.offsetX # R(0)

\* the least integer that is not below q
Ceil(q) == -((-q[1]) \div q[2])

\* for (let x = from; x < limit; x += step): the number of turns of the loop,
\* -1 if it has not ended after fuel turns; x is from + k * step when k turns
\* are done, and the loop ends with the first k at which x < limit fails
LinesDrawn(from, limit, step, fuel) ==
  LET ended == { k \in 0..fuel : ~RLt(RAdd(from, RMul(R(k), step)), R(limit)) }
  IN  IF ended = {} THEN -1
      ELSE CHOOSE k \in ended : \A j \in ended : k <= j

\* the step of the grid lines at the least scale
MinGridSize == RMul(R(50), <<3, 10>>)

\* the most lines the claim allows over an extent
MaxLines(extent) == Ceil(RDiv(R(extent), MinGridSize)) + 1

\* the two loops of a render pass on a layout box r with viewport vp: the
\* step and the numbers of vertical and horizontal lines
gridLines(r, vp) ==
  LET gridSize == RMul(R(50), vp.scale)
      offsetX == Rem(vp.offsetX, gridSize)
      offsetY == Rem(vp.offsetY, gridSize)
  IN  [step |-> gridSize, from |-> offsetX,
       vertical |-> LinesDrawn(offsetX, r.width, gridSize, MaxLines(r.width) + 1),
       horizontal |-> LinesDrawn(offsetY, r.height, gridSize, MaxLines(r.height) + 1)]

\* C36: in every render pass the step of the grid lines is positive, both
\* loops end, and they draw at most ceil(width / 15) + 1 vertical and
\* ceil(height / 15) + 1 horizontal lines.
C36_GridLoopsTerminate ==
  \A drawn \in { << pass.rect, pass.viewport >> : pass \in Range(passes) } :
    LET lines == gridLines(drawn[1], drawn[2])
    IN  /\ RLt(R(0), lines.step)
        /\ lines.vertical \in 0..MaxLines(drawn[1].width)
        /\ lines.horizontal \in 0..MaxLines(drawn[1].height)

\* a pass at the least scale on a panned viewport: the first vertical line
\* is left of the canvas and the loop takes ceil(width / 15) turns
C36_Witness ==
  /\ viewport.scale = <<3, 10>>
  /\ \E pass \in Range(passes) :
       LET lines == gridLines(pass.rect, pass.viewport)
       IN  /\ pass.viewport = viewport
           /\ RLt(lines.from, R(0))
           /\ lines.vertical = MaxLines(pass.rect.width) - 1

\* C37: no touch event starts a marker drag or calls the position-update
\* callback; the dragged marker is set by a mouse-down with the modifier key
\* held and by no other event.
C37_TouchNeverDragsMarker ==
  [][/\ lastEvent' \in TouchEvents \cup {"touchcancel"} =>
          /\ ~DraggingMarker'
          /\ positionUpdates' = << >>
     /\ (DraggingMarker' /\ isDraggingProperty' # isDraggingProperty) =>
          /\ lastEvent' = "mousedown"
          /\ modifier']_vars

\* a finger that went down on a marker, with the callback registered, has
\* moved: the viewport is panned and no marker is dragged
C37_Witness ==
  /\ lastEvent = "touchmove"
  /\ hasCallback
  /\ nTouches = 1
  /\ panStart.p # NoPoint
  /\ HitTest(panStart.p, [viewport EXCEPT !.offsetX = panStart.ox,
                                          !.offsetY = panStart.oy]) # NoId
  /\ viewport.offsetX # panStart.ox
  /\ ~DraggingMarker
  /\ positionUpdates = << >>

\* a marker is dragged and its moves are served by the callback
ServedDrag == DraggingMarker /\ hasCallback

\* C38: the hovered marker id changes with a mouse move that finds no pan
\* and no marker drag served by the callback, and with no other event; such
\* a move sets it to what the hit test resolves at the pointer, a marker id
\* or none.
C38_HoverChangesOnlyOnFreeMove ==
  [][/\ hoveredProperty' # hoveredProperty =>
          /\ lastEvent' = "mousemove"
          /\ ~Panning
          /\ ~ServedDrag
     /\ (lastEvent' = "mousemove" /\ ~Panning /\ ~ServedDrag) =>
          hoveredProperty' = HitTest(pointerAt', viewport)]_vars

\* the mouse has moved during a pan and the hovered id is still the marker
\* hovered before the pan, which the hit test no longer resolves at the pointer
C38_Witness ==
  /\ lastEvent = "mousemove"
  /\ Panning
  /\ hoveredProperty # NoId
  /\ HitTest(pointerAt, viewport) # hoveredProperty

====
